---- MODULE Spec2Model ----
(***************************************************************************)
(* Gesture pipeline of Golden Core: hand-landmark frames are classified    *)
(* with hysteresis (HandTracker.processResults), gesture edges and UI      *)
(* buttons request transitions of the React state activeState              *)
(* (TreeContext), and the render loop (MagicTree.useFrame) damps the       *)
(* shader uniform uState toward the target of the state copy it reads.     *)
(*                                                                         *)
(* Numbers.  Landmark coordinates and distances are in thousandths         *)
(* (0.5 is 500), so x, y are in thousandths and z = zoomFactor too.        *)
(* compactness = avgDist / palmSize is never formed: its comparisons are   *)
(* cross-multiplied, which agrees with IEEE division for palmSize >= 0     *)
(* (avgDist / 0 is +Infinity and compares > 1.6; 0 / 0 is NaN and fails    *)
(* both comparisons).  uState is in quarters (1.0 is 4) and the frame      *)
(* delta in quarter seconds, so the lerp factor 2.0 * delta is delta / 2.  *)
(*                                                                         *)
(* React.  setActiveState queues an update; activeState is the value the   *)
(* components were last rendered with.  Updates made in an animation-frame *)
(* callback are applied by a later render (ReactCommit), updates made in a *)
(* click handler by a render inside the click's own task.  MagicTree       *)
(* copies activeState into activeStateRef in an effect, which runs some    *)
(* time after the render that changed it; animation-frame callbacks can    *)
(* run in between.  The cleanup of the HandTracker effect runs when the    *)
(* component tree unmounts, after which only the awaits of setup() that    *)
(* are still pending can run.                                              *)
(***************************************************************************)
EXTENDS Integers, Sequences, FiniteSets, TLC

VARIABLES
  activeState,     \* TreeProvider: committed value of useState<TreeState>
  pending,         \* setActiveState updates React has queued, oldest first
  handDataRef,     \* TreeProvider: handDataRef.current
  lastGestureRef,  \* HandTracker: lastGestureRef.current
  activeStateRef,  \* MagicTree: activeStateRef.current
  effectPending,   \* MagicTree: the [activeState] effect is scheduled
  uState,          \* TreeMaterial uniform uState
  targetStateValue, \* MagicTree.useFrame: the target of the last render tick
  results,         \* argument of the last processResults call
  lastRequest,     \* target and origin of the last transitionTo call
  manualSeen,      \* a UI button has been clicked
  lastDecisive,    \* classification of the last reading outside the dead band
  lastOp,          \* the handler that ran last
  setupPc,         \* HandTracker: the await the async setup() is parked at
  status,          \* HandTracker: useState 'LOADING' | 'READY' | 'ERROR'
  isMounted,       \* HandTracker effect: isMounted
  rafPending,      \* HandTracker: predictWebcam callbacks requested and not yet run
  handLandmarker,  \* HandTracker: handLandmarkerRef.current
  stream,          \* HandTracker effect: stream
  errorMessage,    \* HandTracker: useState errorMessage
  cleanup,         \* the releases the effect's cleanup attempted, and the one that threw
  promptPhase,     \* UIOverlay: useState promptPhase
  overlayActiveState, \* UIOverlay: activeState in the closure of the polling interval
  camera,          \* CameraRig: camera.position, in tenths
  args,            \* arguments of a function applied on its own
  value            \* what the function returned for args
trackerVars == <<setupPc, status, isMounted, rafPending, handLandmarker, stream,
                 errorMessage, cleanup>>
vars == <<activeState, pending, handDataRef, lastGestureRef, activeStateRef,
          effectPending, uState, targetStateValue, results, lastRequest, manualSeen,
          lastDecisive, lastOp, trackerVars, promptPhase, overlayActiveState,
          camera, args, value>>
readerVars == <<promptPhase, overlayActiveState, camera>>
callVars == <<args, value>>

\* ---- bounds ----
MaxPending == 2
MaxOvershoot == 4

\* ---- inputs ----
\* wrist landmarks; a hand partly outside the image has coordinates
\* outside [0, 1]
Wrists == {<<0, 250>>, <<1050, 1000>>}
\* <<palmSize, avgDist>> of a hand: a far hand at both sides of, on and
\* between the two thresholds, and a near, open hand
Hands == {<<100, 100>>, <<100, 140>>, <<100, 150>>, <<100, 160>>, <<100, 180>>,
          <<300, 540>>}
Deltas == {1, 2, 3, 4}
NoHand == [present |-> FALSE, rawX |-> 0, rawY |-> 0, palmSize |-> 0, avgDist |-> 0]
Frames == {NoHand} \union
  {[present |-> TRUE, rawX |-> w[1], rawY |-> w[2], palmSize |-> h[1],
    avgDist |-> h[2]] : w \in Wrists, h \in Hands}

Min(a, b) == IF a < b THEN a ELSE b
Max(a, b) == IF a > b THEN a ELSE b
Last(s) == s[Len(s)]

\* ---- TreeContext.transitionTo ----
\* transitionTo(state) is setActiveState(state): React queues the update and
\* applies the queue, in order, when it next renders TreeProvider.
\* variant: a request made while another is queued is dropped
transitionToDebounced(queue, state) ==
  IF queue # <<>> THEN queue ELSE Append(queue, state)
transitionTo(queue, state) == Append(queue, state)

\* ---- HandTracker.processResults ----
zoomFactor(palmSize) == Min(Max((palmSize - 50) * 4, 0), 1000)

\* variants: a frame between the thresholds classifies as NONE; thresholds
\* compared with <= and >=
ClassifyNoHold(avgDist, palmSize, last) ==
  IF avgDist * 10 < 14 * palmSize THEN "CLOSED"
  ELSE IF avgDist * 10 > 16 * palmSize THEN "OPEN"
  ELSE "NONE"
ClassifyInclusive(avgDist, palmSize, last) ==
  IF avgDist * 10 <= 14 * palmSize THEN "CLOSED"
  ELSE IF avgDist * 10 >= 16 * palmSize THEN "OPEN"
  ELSE last
Classify(avgDist, palmSize, last) ==
  IF avgDist * 10 < 14 * palmSize THEN "CLOSED"
  ELSE IF avgDist * 10 > 16 * palmSize THEN "OPEN"
  ELSE last

\* variants: level-triggered requests; targets exchanged; an opened hand
\* requests FOCUS; only an opened hand requests anything
RequestsOpenOnly(newGesture, last) ==
  IF newGesture = last THEN <<>>
  ELSE IF newGesture = "OPEN" THEN <<"CHAOS">>
  ELSE <<>>
RequestsFocus(newGesture, last) ==
  IF newGesture = last THEN <<>>
  ELSE IF newGesture = "CLOSED" THEN <<"FORMED">>
  ELSE IF newGesture = "OPEN" THEN <<"FOCUS">>
  ELSE <<>>
RequestsLevel(newGesture, last) ==
  IF newGesture = "CLOSED" THEN <<"FORMED">>
  ELSE IF newGesture = "OPEN" THEN <<"CHAOS">>
  ELSE <<>>
RequestsSwapped(newGesture, last) ==
  IF newGesture = last THEN <<>>
  ELSE IF newGesture = "CLOSED" THEN <<"CHAOS">>
  ELSE IF newGesture = "OPEN" THEN <<"FORMED">>
  ELSE <<>>
Requests(newGesture, last) ==
  IF newGesture = last THEN <<>>
  ELSE IF newGesture = "CLOSED" THEN <<"FORMED">>
  ELSE IF newGesture = "OPEN" THEN <<"CHAOS">>
  ELSE <<>>

\* variant: the record as it stands between the two writes of a tick,
\* the new position with the gesture of the tick before
HandPresentTorn(res, last) ==
  [x |-> -(res.rawX - 500) * 2,
   y |-> -(res.rawY - 500) * 2,
   z |-> zoomFactor(res.palmSize),
   gesture |-> handDataRef.gesture,
   isPresent |-> TRUE]
HandPresent(res, last) ==
  [x |-> -(res.rawX - 500) * 2,
   y |-> -(res.rawY - 500) * 2,
   z |-> zoomFactor(res.palmSize),
   gesture |-> Classify(res.avgDist, res.palmSize, last),
   isPresent |-> TRUE]

\* variants: absence zeroes the position; absence resets the gesture
HandAbsentZero(h) == [h EXCEPT !.isPresent = FALSE, !.x = 0, !.y = 0, !.z = 0]
HandAbsentReset(h) == [h EXCEPT !.isPresent = FALSE, !.gesture = "NONE"]
HandAbsent(h) == [h EXCEPT !.isPresent = FALSE]

processResults(res) ==
  IF res.present
  THEN LET newGesture == Classify(res.avgDist, res.palmSize, lastGestureRef)
           reqs == Requests(newGesture, lastGestureRef)
       IN /\ Len(pending) + Len(reqs) <= MaxPending
          /\ handDataRef' = HandPresent(res, lastGestureRef)
          /\ lastGestureRef' = newGesture
          /\ pending' = IF reqs = <<>> THEN pending
                        ELSE transitionTo(pending, reqs[1])
          /\ lastRequest' = IF reqs = <<>> THEN lastRequest
                            ELSE [target |-> reqs[1], by |-> "gesture"]
          /\ lastDecisive' = IF res.avgDist * 10 < 14 * res.palmSize THEN "CLOSED"
                             ELSE IF res.avgDist * 10 > 16 * res.palmSize THEN "OPEN"
                             ELSE lastDecisive
  ELSE /\ handDataRef' = HandAbsent(handDataRef)
       /\ UNCHANGED <<lastGestureRef, pending, lastRequest, lastDecisive>>

\* One detection tick.  detectForVideo runs only when the video has a frame
\* and is playing; it returns results or throws, and a throw is caught and
\* logged.  The tick ends by requesting the next animation frame.
Detections == [kind : {"results"}, res : Frames] \union
              [kind : {"throws", "noFrame"}, res : {NoHand}]

\* requestAnimationFrame(predictWebcam) at the end of a tick: one more
\* callback is pending, whatever the detection did (a throw is caught)
\* variants: the frame is requested twice; a throw skips the request
NextFrameTwice(kind, n) == n + 2
NextFrameUncaught(kind, n) == IF kind = "throws" THEN n ELSE n + 1
NextFrame(kind, n) == n + 1

\* The body of predictWebcam for a mounted session with a landmarker, with
\* n callbacks still pending when it starts.
Tick(n) ==
  \E det \in Detections :
    /\ IF det.kind = "results"
       THEN /\ processResults(det.res)
            /\ results' = det.res
            /\ lastOp' = "processResults"
       ELSE /\ lastOp' = det.kind
            /\ UNCHANGED <<handDataRef, lastGestureRef, pending, lastRequest,
                           lastDecisive, results>>
    /\ rafPending' = NextFrame(det.kind, n)
    /\ UNCHANGED <<activeState, activeStateRef, effectPending, uState,
                   targetStateValue, manualSeen, readerVars, callVars>>

\* The animation-frame callback.
predictWebcam ==
  /\ rafPending > 0
  /\ IF isMounted /\ handLandmarker # "null"
     THEN Tick(rafPending - 1)
     ELSE /\ rafPending' = rafPending - 1
          /\ lastOp' = "predictWebcam"
          /\ UNCHANGED <<activeState, pending, handDataRef, lastGestureRef,
                         activeStateRef, effectPending, uState, targetStateValue,
                         results, lastRequest, manualSeen, lastDecisive,
                         readerVars, callVars>>
  /\ UNCHANGED <<setupPc, status, isMounted, handLandmarker, stream,
                 errorMessage, cleanup>>

\* ---- TreeContext / React ----
\* useState applies the queued values in order, so the last one stands
\* (variant: the first one stands)
ApplyFirst(state, queue) == IF queue = <<>> THEN state ELSE Head(queue)
ApplyUpdates(state, queue) == IF queue = <<>> THEN state ELSE Last(queue)

\* the values of a freshly mounted tree
Mounted ==
  /\ activeState = "FORMED"
  /\ pending = <<>>
  /\ handDataRef = [x |-> 0, y |-> 0, z |-> 0, gesture |-> "NONE", isPresent |-> FALSE]
  /\ lastGestureRef = "NONE"
  /\ activeStateRef = "FORMED"
  /\ effectPending = FALSE
  /\ uState = 0
  /\ targetStateValue = 0
  /\ results = NoHand
  /\ lastRequest = [target |-> "NONE", by |-> "none"]
  /\ manualSeen = FALSE
  /\ lastDecisive = "NONE"
  /\ lastOp = "init"
  /\ setupPc = "fileset"
  /\ status = "LOADING"
  /\ isMounted = TRUE
  /\ rafPending = 0
  /\ handLandmarker = "null"
  /\ stream = "null"
  /\ errorMessage = ""
  /\ cleanup = [attempted |-> <<>>, threw |-> "none"]
  /\ promptPhase = [title |-> "SYSTEM INITIALIZING",
                    subtitle |-> "WAITING FOR CAMERA...", step |-> 0]
  /\ overlayActiveState = "FORMED"
  /\ camera = [x |-> 0, y |-> 20, z |-> 250]

Init == Mounted /\ args = <<>> /\ value = <<>>

\* React renders TreeProvider with the queued updates applied.  MagicTree
\* re-renders with the new value and its effect is scheduled to run later.
ReactCommit ==
  /\ isMounted
  /\ pending # <<>>
  /\ activeState' = ApplyUpdates(activeState, pending)
  /\ pending' = <<>>
  /\ effectPending' = (effectPending \/ activeState' # activeState)
  /\ lastOp' = "ReactCommit"
  /\ UNCHANGED <<handDataRef, lastGestureRef, activeStateRef, uState,
                 targetStateValue, results, lastRequest, manualSeen, lastDecisive,
                 trackerVars, readerVars, callVars>>

\* ---- UIOverlay buttons ----
\* A click is a discrete event: React renders before the handler's task
\* ends, applying the update together with the ones already queued.
onClick(state) ==
  /\ isMounted
  /\ activeState' = ApplyUpdates(activeState, transitionTo(pending, state))
  /\ pending' = <<>>
  /\ effectPending' = (effectPending \/ activeState' # activeState)
  /\ lastRequest' = [target |-> state, by |-> "manual"]
  /\ manualSeen' = TRUE
  /\ lastOp' = "onClick"
  /\ UNCHANGED <<handDataRef, lastGestureRef, activeStateRef, uState,
                 targetStateValue, results, lastDecisive, trackerVars,
                 readerVars, callVars>>

\* ---- MagicTree ----
\* variant: the effect keeps the value of the first render
EffectValueInitial(state) == "FORMED"
EffectValue(state) == state

MagicTreeEffect ==
  /\ isMounted
  /\ effectPending
  /\ activeStateRef' = EffectValue(activeState)
  /\ overlayActiveState' = activeState
  /\ effectPending' = FALSE
  /\ lastOp' = "MagicTreeEffect"
  /\ UNCHANGED <<activeState, pending, handDataRef, lastGestureRef, uState,
                 targetStateValue, results, lastRequest, manualSeen, lastDecisive,
                 trackerVars, promptPhase, camera, callVars>>

TargetOf(ref) == IF ref = "CHAOS" THEN 4 ELSE 0

\* THREE.MathUtils.lerp(x, y, t) = (1 - t) * x + t * y with t = tNum / 2
lerp(x, y, tNum) == ((2 - tNum) * x + tNum * y) \div 2

\* MagicTree's useFrame callback on a render tick of length delta
MagicTreeFrame(delta) ==
  LET target == TargetOf(activeStateRef)
      smoothing == delta   \* 2.0 * delta, in halves
  IN /\ ((2 - smoothing) * uState + smoothing * target) % 2 = 0
     /\ lerp(uState, target, smoothing) \in (0 - MaxOvershoot) .. (4 + MaxOvershoot)
     /\ uState' = lerp(uState, target, smoothing)
     /\ targetStateValue' = target

\* a render tick, seen from MagicTree alone
useFrame ==
  \E delta \in Deltas :
    /\ isMounted
    /\ MagicTreeFrame(delta)
    /\ lastOp' = "useFrame"
    /\ UNCHANGED <<activeState, pending, handDataRef, lastGestureRef,
                   activeStateRef, effectPending, results, lastRequest,
                   manualSeen, lastDecisive, trackerVars, readerVars, callVars>>

\* ---- HandTracker setup and cleanup ----
appVars == <<activeState, pending, handDataRef, lastGestureRef, activeStateRef,
             effectPending, uState, targetStateValue, results, lastRequest,
             manualSeen, lastDecisive>>

\* setup()'s catch block: setStatus('ERROR') and
\* setErrorMessage(error.message || 'Setup Failed'), both only if mounted
SetupError == IF isMounted THEN "ERROR" ELSE status
\* variant: the message of the error is shown as it is
ErrorTextRaw(message) == message
ErrorText(message) == IF message = "" THEN "Setup Failed" ELSE message
ErrorMessages == {"", "Permission denied"}

FilesetResolved ==
  /\ setupPc = "fileset"
  /\ setupPc' = IF isMounted THEN "landmarker" ELSE "done"
  /\ lastOp' = "FilesetResolved"
  /\ UNCHANGED <<appVars, readerVars, callVars, status, isMounted, rafPending, handLandmarker, stream,
                 errorMessage, cleanup>>

\* createFromOptions resolved; startWebcam throws if the camera API is missing
LandmarkerCreated ==
  \E cameraApi \in BOOLEAN :
    /\ setupPc = "landmarker"
    /\ handLandmarker' = "open"
    /\ IF ~isMounted
       THEN /\ setupPc' = "done"
            /\ lastOp' = "LandmarkerCreated"
            /\ UNCHANGED <<status, errorMessage>>
       ELSE IF ~cameraApi
       THEN /\ setupPc' = "done"
            /\ status' = SetupError
            /\ errorMessage' = ErrorText("Camera API Missing")
            /\ lastOp' = "CameraApiMissing"
       ELSE /\ setupPc' = "camera"
            /\ lastOp' = "LandmarkerCreated"
            /\ UNCHANGED <<status, errorMessage>>
    /\ UNCHANGED <<appVars, readerVars, callVars, isMounted, rafPending, stream, cleanup>>

\* a rejected await inside setup's try block
SetupRejected ==
  \E message \in ErrorMessages :
    /\ setupPc \in {"fileset", "landmarker", "camera"}
    /\ setupPc' = "done"
    /\ status' = SetupError
    /\ errorMessage' = IF isMounted THEN ErrorText(message) ELSE errorMessage
    /\ lastOp' = "SetupRejected"
    /\ UNCHANGED <<appVars, readerVars, callVars, isMounted, rafPending, handLandmarker, stream, cleanup>>

CameraGranted ==
  /\ setupPc = "camera"
  /\ IF isMounted
     THEN stream' = "live" /\ setupPc' = "play"
     ELSE stream' = "stopped" /\ setupPc' = "done"
  /\ lastOp' = "CameraGranted"
  /\ UNCHANGED <<appVars, readerVars, callVars, status, isMounted, rafPending, handLandmarker,
                 errorMessage, cleanup>>

\* video.play() resolved: setStatus('READY'), then the first predictWebcam
\* call (variant: the call is made without setting the status)
PlayResolvedLoading ==
  /\ setupPc = "play"
  /\ setupPc' = "done"
  /\ IF isMounted
     THEN /\ status' = status
          /\ Tick(rafPending)
     ELSE /\ lastOp' = "PlayResolved"
          /\ UNCHANGED <<appVars, readerVars, callVars, status, rafPending>>
  /\ UNCHANGED <<isMounted, handLandmarker, stream, errorMessage, cleanup>>
PlayResolved ==
  /\ setupPc = "play"
  /\ setupPc' = "done"
  /\ IF isMounted
     THEN /\ status' = "READY"
          /\ Tick(rafPending)
     ELSE /\ lastOp' = "PlayResolved"
          /\ UNCHANGED <<appVars, readerVars, callVars, status, rafPending>>
  /\ UNCHANGED <<isMounted, handLandmarker, stream, errorMessage, cleanup>>

PlayRejected ==
  /\ setupPc = "play"
  /\ setupPc' = "done"
  /\ status' = SetupError
  /\ errorMessage' = IF isMounted THEN "Video Play Blocked" ELSE errorMessage
  /\ lastOp' = "PlayRejected"
  /\ UNCHANGED <<appVars, readerVars, callVars, isMounted, rafPending, handLandmarker, stream, cleanup>>

\* cancelAnimationFrame(animationFrameRef.current): the callback requested
\* last no longer runs (variant: nothing is cancelled)
cancelNothing(n) == n
cancelAnimationFrame(n) == IF n > 0 THEN n - 1 ELSE 0

\* The releases the cleanup reaches, in order, when release `threw` throws:
\* the statements are in sequence with no try/catch, so a throw ends it.
CleanupAttempts(threw, raf, str, lm) ==
  (IF raf > 0 THEN <<"cancel">> ELSE <<>>) \o
  (IF str # "null" THEN <<"stop">> ELSE <<>>) \o
  (IF lm # "null" /\ threw # "stop" THEN <<"close">> ELSE <<>>)

\* the effect's cleanup; track.stop() or landmarker.close() may throw
Cleanup ==
  \E threw \in {"none", "stop", "close"} :
    /\ isMounted
    /\ threw = "stop" => stream = "live"
    /\ threw = "close" => handLandmarker = "open"
    /\ isMounted' = FALSE
    /\ rafPending' = cancelAnimationFrame(rafPending)
    /\ stream' = IF stream = "live" /\ threw # "stop" THEN "stopped" ELSE stream
    /\ handLandmarker' = IF handLandmarker = "open" /\ threw = "none"
                         THEN "closed" ELSE handLandmarker
    /\ cleanup' = [attempted |-> CleanupAttempts(threw, rafPending, stream, handLandmarker),
                   threw |-> threw]
    /\ lastOp' = "Cleanup"
    /\ UNCHANGED <<appVars, readerVars, callVars, setupPc, status, errorMessage>>

\* ---- UIOverlay polling interval ----
\* the prompt the interval callback sets from the record it reads and the
\* activeState of its closure; with any other state it sets nothing
PromptFor(hand, state, prompt) ==
  IF ~hand.isPresent
  THEN [title |-> "PHASE I: LINK", subtitle |-> "RAISE YOUR HAND TO CONNECT", step |-> 1]
  ELSE IF state = "FORMED"
  THEN IF hand.gesture = "OPEN"
       THEN [title |-> "PHASE II: ENTROPY", subtitle |-> "DISSOLVING STRUCTURE...", step |-> 2]
       ELSE [title |-> "PHASE II: ENTROPY", subtitle |-> "OPEN HAND TO DISSOLVE", step |-> 2]
  ELSE IF state = "CHAOS"
  THEN IF hand.gesture = "CLOSED"
       THEN [title |-> "PHASE III: ORDER", subtitle |-> "REFORMING CORE...", step |-> 3]
       ELSE [title |-> "PHASE III: ORDER", subtitle |-> "CLOSE FIST TO IGNITE", step |-> 3]
  ELSE prompt

\* variant: the callback also clears the gesture of a hand that has left
pollUIResetting ==
  /\ isMounted
  /\ promptPhase' = PromptFor(handDataRef, overlayActiveState, promptPhase)
  /\ handDataRef' = IF handDataRef.isPresent THEN handDataRef
                    ELSE [handDataRef EXCEPT !.gesture = "NONE"]
  /\ lastOp' = "pollUI"
  /\ UNCHANGED <<activeState, pending, lastGestureRef, activeStateRef,
                 effectPending, uState, targetStateValue, results, lastRequest,
                 manualSeen, lastDecisive, trackerVars, overlayActiveState,
                 camera, callVars>>
\* one run of the setInterval callback
pollUI ==
  /\ isMounted
  /\ promptPhase' = PromptFor(handDataRef, overlayActiveState, promptPhase)
  /\ lastOp' = "pollUI"
  /\ UNCHANGED <<appVars, trackerVars, overlayActiveState, camera, callVars>>

\* ---- CameraRig ----
\* render-tick lengths in quarter seconds; (sin, cos) of elapsedTime * 0.15
\* in thousandths
CameraDeltas == {2}
IdlePhases == {<<0, 1000>>}

\* variant: the wide preset is used when the state is not CHAOS
CameraTargetSwapped(hand, state) ==
  LET isChaos == state # "CHAOS"
      rangeX == IF isChaos THEN 50 ELSE 30
      rangeY == IF isChaos THEN 25 ELSE 15
      offsetY == IF isChaos THEN 2 ELSE 5
      maxDist == IF isChaos THEN 40 ELSE 35
      minDist == 12
  IN [x |-> (hand.x * rangeX) \div 100,
      y |-> (hand.y * rangeY + offsetY * 1000) \div 100,
      z |-> ((1000 - hand.z) * maxDist + hand.z * minDist) \div 100]
\* the hand-driven target, in tenths (the hand record is in thousandths):
\* the presets depend on activeState
CameraTarget(hand, state) ==
  LET isChaos == state = "CHAOS"
      rangeX == IF isChaos THEN 50 ELSE 30
      rangeY == IF isChaos THEN 25 ELSE 15
      offsetY == IF isChaos THEN 2 ELSE 5
      maxDist == IF isChaos THEN 40 ELSE 35
      minDist == 12
  IN [x |-> (hand.x * rangeX) \div 100,
      y |-> (hand.y * rangeY + offsetY * 1000) \div 100,
      z |-> ((1000 - hand.z) * maxDist + hand.z * minDist) \div 100]

\* the idle orbit
IdleTarget(phase) ==
  [x |-> (phase[1] * 4) \div 100, y |-> 20, z |-> 250 + (phase[2] * 2) \div 100]

\* the three lerps of camera.position, factor tNum / 2
MoveCamera(pos, target, tNum) ==
  [x |-> lerp(pos.x, target.x, tNum),
   y |-> lerp(pos.y, target.y, tNum),
   z |-> lerp(pos.z, target.z, tNum)]

\* variant: the idle orbit is centred on the last hand position
CameraGoalStale(hand, state, phase) ==
  IF hand.isPresent THEN CameraTarget(hand, state)
  ELSE [IdleTarget(phase) EXCEPT !.x = @ + (hand.x * 4) \div 100]
\* where the camera is pulled to
CameraGoal(hand, state, phase) ==
  IF hand.isPresent THEN CameraTarget(hand, state) ELSE IdleTarget(phase)

\* the lerp factor in halves: damp = 2.0 * delta, halved when idle
CameraDamp(hand, delta) == IF hand.isPresent THEN delta ELSE delta \div 2

\* the lerps stay on the grid
CameraExact(pos, target, tNum) ==
  \A c \in {"x", "y", "z"} : ((2 - tNum) * pos[c] + tNum * target[c]) % 2 = 0

\* camera.position after the callback
CameraStep(hand, state, pos, delta, phase) ==
  MoveCamera(pos, CameraGoal(hand, state, phase), CameraDamp(hand, delta))

\* CameraRig's useFrame callback on a render tick of length delta
CameraRig(delta, phase) ==
  /\ CameraExact(camera, CameraGoal(handDataRef, activeState, phase),
                 CameraDamp(handDataRef, delta))
  /\ camera' = CameraStep(handDataRef, activeState, camera, delta, phase)

\* a render tick: the frame loop calls both useFrame callbacks with the
\* same delta
renderTick ==
  \E delta \in CameraDeltas, phase \in IdlePhases :
    /\ isMounted
    /\ CameraRig(delta, phase)
    /\ MagicTreeFrame(delta)
    /\ lastOp' = "renderTick"
    /\ UNCHANGED <<activeState, pending, handDataRef, lastGestureRef,
                   activeStateRef, effectPending, results, lastRequest,
                   manualSeen, lastDecisive, trackerVars, promptPhase,
                   overlayActiveState, callVars>>

\* ---- zoomFactor in the arithmetic of Number ----
\* A double d with 0 <= d <= 4 is the integer d * 2^57, written in two
\* limbs <<hi, lo>> = hi * 2^28 + lo.  Below 0.5 the doubles are the
\* multiples of 1 (up to 2^-4), 2 (up to 2^-3), 4 (up to 2^-2) and 8.
Limb == 268435456
Less(a, b) == a[1] < b[1] \/ (a[1] = b[1] /\ a[2] < b[2])
\* a + n for a small n >= 0, and a - b for a >= b, both exact
Plus(a, n) == IF a[2] + n < Limb THEN <<a[1], a[2] + n>>
              ELSE <<a[1] + 1, a[2] + n - Limb>>
Minus(a, b) == IF a[2] >= b[2] THEN <<a[1] - b[1], a[2] - b[2]>>
               ELSE <<a[1] - b[1] - 1, a[2] + Limb - b[2]>>
\* the spacing of the doubles around r < 0.5: 53 significant bits
Ulp(r) == IF r[1] < 33554432 THEN 1
          ELSE IF r[1] < 67108864 THEN 2
          ELSE IF r[1] < 134217728 THEN 4
          ELSE 8
\* variant: the exact result is cut off instead of rounded
RoundDown(r) == <<r[1], r[2] - (r[2] % Ulp(r))>>
\* an exact result r becomes the nearest double, a tie the one with the
\* even mantissa
RoundToEven(r) ==
  LET g == Ulp(r)
      rem == r[2] % g
      down == <<r[1], r[2] - rem>>
  IN IF 2 * rem < g THEN down
     ELSE IF 2 * rem > g THEN Plus(down, g)
     ELSE IF down[2] % (2 * g) = 0 THEN down
     ELSE Plus(down, g)
\* the literals 0.05 and 1 as doubles, and d * 4.0, which is exact
Num005 == <<26843545, 161061274>>
NumOne == <<536870912, 0>>
Times4(d) == <<4 * d[1] + (4 * d[2]) \div Limb, (4 * d[2]) % Limb>>

\* Math.min(Math.max((palmSize - 0.05) * 4.0, 0), 1)
zoomFactor64(palmSize) ==
  IF ~Less(Num005, palmSize) THEN <<0, 0>>
  ELSE LET scaled == Times4(RoundToEven(Minus(palmSize, Num005)))
       IN IF Less(NumOne, scaled) THEN NumOne ELSE scaled

\* palm sizes: 0; the doubles around 0.05; 0.1; 0.2 and the doubles after
\* it; the doubles around 0.3; 0.4375
PalmDoubles ==
  {<<0, 0>>, <<26843545, 161061273>>, <<26843545, 161061274>>,
   <<26843545, 161061275>>, <<26843545, 161061276>>,
   <<53687091, 53687092>>,
   <<107374182, 107374184>>, <<107374182, 107374188>>,
   <<107374182, 107374192>>, <<107374182, 107374196>>,
   <<107374182, 107374200>>,
   <<161061273, 161061256>>, <<161061273, 161061264>>,
   <<161061273, 161061272>>, <<161061273, 161061280>>,
   <<234881024, 0>>}

InitZoom == Mounted /\ args \in PalmDoubles \X PalmDoubles /\ value = <<>>

\* zoomFactor applied to each of two palm sizes
ApplyZoom ==
  /\ value = <<>>
  /\ value' = <<zoomFactor64(args[1]), zoomFactor64(args[2])>>
  /\ UNCHANGED <<appVars, lastOp, trackerVars, readerVars, args>>

SpecZoom == InitZoom /\ [][ApplyZoom]_vars

\* ---- the camera target on its own ----
\* records with a hand present, and the values of the type TreeState
PresentHands ==
  [x : {-1100, -1000, -500, 0, 500, 1000}, y : {-1100, -1000, -500, 0, 500, 1000},
   z : {0, 200, 500, 1000}, gesture : {"OPEN"}, isPresent : {TRUE}]
TreeStates == {"FORMED", "CHAOS", "FOCUS"}

InitTarget ==
  /\ Mounted
  /\ args \in [hand : PresentHands, state : TreeStates]
  /\ value = <<>>

\* the target of the render tick, next to the target the same record
\* gets in each of the two states
ApplyTarget ==
  /\ value = <<>>
  /\ value' = [target |-> CameraTarget(args.hand, args.state),
               formed |-> CameraTarget(args.hand, "FORMED"),
               chaos |-> CameraTarget(args.hand, "CHAOS")]
  /\ UNCHANGED <<appVars, lastOp, trackerVars, readerVars, args>>

SpecTarget == InitTarget /\ [][ApplyTarget]_vars

\* ---- the idle camera step on its own ----
\* records left behind by a hand that is gone, camera positions, tick
\* lengths and orbit phases
AbsentHands ==
  [x : {0, 1000}, y : {0, 500}, z : {0, 200}, gesture : {"NONE", "OPEN"},
   isPresent : {FALSE}]
CameraPositions ==
  {[x |-> 0, y |-> 20, z |-> 250], [x |-> 300, y |-> 125, z |-> 304],
   [x |-> -550, y |-> -230, z |-> 120]}
IdleDeltas == {2, 4}
OrbitPhases == {<<0, 1000>>, <<1000, 0>>}

InitIdle ==
  /\ Mounted
  /\ args \in [handA : AbsentHands, handB : AbsentHands,
               stateA : {"FORMED", "CHAOS"}, stateB : {"FORMED", "CHAOS"},
               pos : CameraPositions, delta : IdleDeltas, phase : OrbitPhases]
  /\ value = <<>>

\* the same render tick in two runs, and in the first run with the hand
\* still there
ApplyIdle ==
  /\ value = <<>>
  /\ CameraExact(args.pos, CameraGoal(args.handA, args.stateA, args.phase),
                 CameraDamp(args.handA, args.delta))
  /\ CameraExact(args.pos, CameraGoal(args.handB, args.stateB, args.phase),
                 CameraDamp(args.handB, args.delta))
  /\ value' = [a |-> CameraStep(args.handA, args.stateA, args.pos, args.delta,
                                args.phase),
               b |-> CameraStep(args.handB, args.stateB, args.pos, args.delta,
                                args.phase),
               held |-> CameraStep([args.handA EXCEPT !.isPresent = TRUE],
                                   args.stateA, args.pos, args.delta, args.phase)]
  /\ UNCHANGED <<appVars, lastOp, trackerVars, readerVars, args>>

SpecIdle == InitIdle /\ [][ApplyIdle]_vars

Next ==
  \/ predictWebcam
  \/ ReactCommit
  \/ \E state \in {"FORMED", "CHAOS"} : onClick(state)
  \/ MagicTreeEffect
  \/ useFrame
  \/ FilesetResolved
  \/ LandmarkerCreated
  \/ SetupRejected
  \/ CameraGranted
  \/ PlayResolved
  \/ PlayRejected
  \/ Cleanup

Spec == Init /\ [][Next]_vars

\* The session together with the readers of handDataRef, for a setup that
\* succeeds and a tree that stays mounted.
NextReaders ==
  \/ predictWebcam
  \/ ReactCommit
  \/ \E state \in {"FORMED", "CHAOS"} : onClick(state)
  \/ MagicTreeEffect
  \/ renderTick
  \/ pollUI
  \/ FilesetResolved
  \/ LandmarkerCreated
  \/ CameraGranted
  \/ PlayResolved

SpecReaders == Init /\ [][NextReaders]_vars

TickOps == {"processResults", "throws", "noFrame"}

\* C1: on a hand-present detection tick the gesture is CLOSED for
\* compactness < 1.4, OPEN for compactness > 1.6, and otherwise the gesture
\* of the previous tick.
C1_Hysteresis ==
  [][(lastOp' = "processResults" /\ results'.present) =>
       handDataRef'.gesture =
         IF results'.avgDist * 10 < 14 * results'.palmSize THEN "CLOSED"
         ELSE IF results'.avgDist * 10 > 16 * results'.palmSize THEN "OPEN"
         ELSE handDataRef.gesture]_vars
\* a dead-band reading (1.4 exactly) was processed and CLOSED was held
C1_Witness ==
  /\ lastOp = "processResults" /\ results.present
  /\ results.avgDist = 140 /\ results.palmSize = 100
  /\ handDataRef.gesture = "CLOSED"

\* C2: a detection tick whose gesture equals the gesture of the previous
\* tick issues no transition request.
C2_NoRequestWithoutChange ==
  [][(lastOp' \in TickOps /\ handDataRef'.gesture = handDataRef.gesture) =>
       (pending' = pending /\ lastRequest' = lastRequest)]_vars
\* a sustained OPEN (dead-band reading holding OPEN) left the queue empty
C2_Witness ==
  /\ lastOp = "processResults" /\ results.present
  /\ results.avgDist = 160 /\ results.palmSize = 100
  /\ handDataRef.gesture = "OPEN" /\ pending = <<>>

\* C3: a change of the gesture to CLOSED requests exactly one transition to
\* FORMED, a change to OPEN exactly one to CHAOS, and a detection tick
\* requests nothing else.
C3_EdgeRequests ==
  [][lastOp' \in TickOps =>
       pending' = pending \o
         (IF handDataRef'.gesture = handDataRef.gesture THEN <<>>
          ELSE IF handDataRef'.gesture = "CLOSED" THEN <<"FORMED">>
          ELSE IF handDataRef'.gesture = "OPEN" THEN <<"CHAOS">>
          ELSE <<>>)]_vars
\* OPEN -> CLOSED edge queued FORMED behind an unapplied CHAOS
C3_Witness ==
  /\ lastOp = "processResults" /\ handDataRef.gesture = "CLOSED"
  /\ pending = <<"CHAOS", "FORMED">>

\* C4: a click on a UI button is accepted in any state: right after it
\* activeState is the button's target, and whenever no update is queued
\* activeState is the target of the most recent request, manual or gesture.
C4_LastRequestWins ==
  /\ lastOp = "onClick" => activeState = lastRequest.target
  /\ pending # <<>> => Last(pending) = lastRequest.target
  /\ (pending = <<>> /\ lastRequest.target # "NONE") =>
       activeState = lastRequest.target
\* a click on Dissolve while the hand is present, closed, with a gesture
\* request still queued
C4_Witness ==
  /\ lastOp = "onClick" /\ lastRequest.target = "CHAOS"
  /\ handDataRef.isPresent /\ handDataRef.gesture = "CLOSED"
  /\ activeState = "CHAOS"

\* C5: after a manual override gesture edges still drive the state: once the
\* request of the latest gesture edge is applied, activeState is FORMED for
\* CLOSED and CHAOS for OPEN.
C5_GestureAfterOverride ==
  (manualSeen /\ lastRequest.by = "gesture" /\ pending = <<>>) =>
     activeState = (IF handDataRef.gesture = "CLOSED" THEN "FORMED" ELSE "CHAOS")
\* after a click, a CLOSED edge has been applied and the state is FORMED again
C5_Witness ==
  /\ manualSeen /\ lastRequest.by = "gesture" /\ lastOp = "ReactCommit"
  /\ handDataRef.gesture = "CLOSED" /\ activeState = "FORMED"

\* C6: a tick that reports no hand clears isPresent and leaves x, y, z, the
\* gesture, lastGestureRef, the queue and activeState unchanged.
C6_AbsentFrame ==
  [][(lastOp' = "processResults" /\ ~results'.present) =>
       /\ handDataRef'.isPresent = FALSE
       /\ handDataRef'.x = handDataRef.x
       /\ handDataRef'.y = handDataRef.y
       /\ handDataRef'.z = handDataRef.z
       /\ handDataRef'.gesture = handDataRef.gesture
       /\ lastGestureRef' = lastGestureRef
       /\ pending' = pending
       /\ activeState' = activeState]_vars
\* the hand left after a CLOSED fist at a non-default position
C6_Witness ==
  /\ lastOp = "processResults" /\ ~results.present
  /\ ~handDataRef.isPresent /\ handDataRef.gesture = "CLOSED"
  /\ handDataRef.x # 0 /\ handDataRef.z # 0 /\ activeState = "FORMED"

\* C7: the stored gesture is the classification of the most recent
\* hand-present reading outside the dead band, NONE if there was none.
C7_GestureIsLastDecisive == handDataRef.gesture = lastDecisive
\* the hand left while OPEN and the gesture is still OPEN
C7_Witness ==
  /\ ~handDataRef.isPresent /\ lastOp = "processResults"
  /\ handDataRef.gesture = "OPEN" /\ lastDecisive = "OPEN"

Between(a, b, c) == (a <= b /\ b <= c) \/ (c <= b /\ b <= a)

\* C8: a render tick leaves uState between its previous value and the target.
C8_NoOvershoot ==
  [][lastOp' = "useFrame" => Between(uState, uState', targetStateValue')]_vars

\* C9: uState is in [0, 1] in every reachable state.
C9_BlendInUnitRange == uState >= 0 /\ uState <= 4

\* C10 as claimed: on a render tick the target is 1.0 iff activeState is CHAOS.
C10_TargetTracksState ==
  lastOp = "useFrame" => (targetStateValue = 4 <=> activeState = "CHAOS")
\* C10 amended: on a render tick the target is 1.0 iff activeStateRef is
\* CHAOS and 0.0 otherwise, and activeStateRef equals activeState unless the
\* MagicTree effect for a committed change has not run yet.
C10_TargetTracksRef ==
  /\ lastOp = "useFrame" =>
       targetStateValue = (IF activeStateRef = "CHAOS" THEN 4 ELSE 0)
  /\ ~effectPending => activeStateRef = activeState
\* a render tick after the effect ran: the target follows the CHAOS state
C10_Witness ==
  /\ lastOp = "useFrame" /\ ~effectPending
  /\ activeState = "CHAOS" /\ targetStateValue = 4

\* C11: at most one predictWebcam callback is pending at any time, and a
\* tick leaves exactly one successor pending.
C11_OneTickInFlight ==
  /\ rafPending \in {0, 1}
  /\ lastOp \in TickOps => rafPending = 1
\* a tick ran from the animation-frame callback and one successor is pending
C11_Witness ==
  /\ lastOp = "processResults" /\ results.present /\ setupPc = "done"
  /\ handDataRef.gesture = "OPEN" /\ rafPending = 1

ReleaseRank(r) == IF r = "cancel" THEN 1 ELSE IF r = "stop" THEN 2 ELSE 3
Attempted(r) == \E i \in DOMAIN cleanup.attempted : cleanup.attempted[i] = r

\* C12: the cleanup releases in the order cancel, stop, close, and attempts
\* the release of every resource it holds even if an earlier release threw.
C12_IndependentReleases ==
  lastOp = "Cleanup" =>
    /\ \A i, j \in DOMAIN cleanup.attempted :
         i < j => ReleaseRank(cleanup.attempted[i]) < ReleaseRank(cleanup.attempted[j])
    /\ stream # "null" => Attempted("stop")
    /\ handLandmarker # "null" => Attempted("close")

\* C13: once the session is torn down (no release having thrown) and setup
\* has run to its end, no camera track is live and no landmarker is open.
C13_NothingHeldAfterTeardown ==
  (~isMounted /\ setupPc = "done" /\ cleanup.threw = "none") =>
     (stream # "live" /\ handLandmarker # "open")

\* C14: from the cleanup on no detection tick runs, no callback is pending,
\* handDataRef and lastGestureRef are not written and nothing is requested.
C14_StoppedForGood ==
  [][~isMounted' =>
       /\ rafPending' = 0
       /\ lastOp' \notin TickOps
       /\ handDataRef' = handDataRef
       /\ lastGestureRef' = lastGestureRef
       /\ pending' = pending
       /\ lastRequest' = lastRequest]_vars
\* play() resolved after the cleanup, which had found a running loop or not
C14_Witness ==
  /\ ~isMounted /\ lastOp = "PlayResolved" /\ rafPending = 0
  /\ stream = "stopped" /\ status = "LOADING"

\* C15: a tick whose detection throws leaves handDataRef, lastGestureRef,
\* activeState and the queue unchanged, the status READY, and one callback
\* pending.
C15_ThrowSkipsFrame ==
  [][lastOp' = "throws" =>
       /\ handDataRef' = handDataRef
       /\ lastGestureRef' = lastGestureRef
       /\ activeState' = activeState
       /\ pending' = pending
       /\ status' = "READY"
       /\ rafPending' = 1]_vars
\* detection threw while a closed hand was being tracked
C15_Witness ==
  /\ lastOp = "throws" /\ handDataRef.isPresent /\ handDataRef.gesture = "CLOSED"
  /\ status = "READY" /\ rafPending = 1 /\ setupPc = "done"

FailureOps == {"SetupRejected", "PlayRejected", "CameraApiMissing"}

\* C16 as claimed: a setup failure sets the status to ERROR with a reason.
C16_FailureSurfaced ==
  lastOp \in FailureOps => (status = "ERROR" /\ errorMessage # "")
\* C16 amended: a setup failure in a mounted session sets the status to ERROR
\* with a non-empty reason; once ERROR the status stays ERROR, setup has
\* ended, no callback is pending, no tick runs and handDataRef keeps its
\* defaults.
C16_FailureTerminal ==
  [][/\ (lastOp' \in FailureOps /\ isMounted') =>
          (status' = "ERROR" /\ errorMessage' # "")
     /\ status = "ERROR" =>
          /\ status' = "ERROR" /\ errorMessage' # ""
          /\ setupPc = "done" /\ setupPc' = "done"
          /\ rafPending' = 0 /\ lastOp' \notin TickOps
          /\ handDataRef' = [x |-> 0, y |-> 0, z |-> 0, gesture |-> "NONE",
                             isPresent |-> FALSE]]_vars
\* playback was blocked in a mounted session, then a button was clicked
C16_Witness ==
  /\ status = "ERROR" /\ errorMessage = "Video Play Blocked" /\ isMounted
  /\ lastOp = "onClick" /\ stream = "live"

\* C19: activeState is FORMED initially and only ever FORMED or CHAOS, and
\* no queued update asks for anything else.
C19_NeverFocus ==
  /\ lastOp = "init" => activeState = "FORMED"
  /\ activeState \in {"FORMED", "CHAOS"}
  /\ \A i \in DOMAIN pending : pending[i] \in {"FORMED", "CHAOS"}
\* after clicks and gesture edges the state is CHAOS by a gesture request
C19_Witness ==
  /\ activeState = "CHAOS" /\ manualSeen /\ lastRequest.by = "gesture"
  /\ lastOp = "ReactCommit"

\* C20: x and y are in [-1, 1] and z in [0, 1] in every reachable state.
C20_ControlStateRanges ==
  /\ handDataRef.x >= -1000 /\ handDataRef.x <= 1000
  /\ handDataRef.y >= -1000 /\ handDataRef.y <= 1000
  /\ handDataRef.z >= 0 /\ handDataRef.z <= 1000

ReaderOps == {"renderTick", "pollUI"}

\* C17: a render tick, a UI poll and a click leave handDataRef as it is, and
\* a render tick and a UI poll also leave activeState (and the queue of
\* requested transitions) as it is.
C17_OnlyTickWrites ==
  [][/\ lastOp' \in ReaderOps \union {"onClick"} => handDataRef' = handDataRef
     /\ lastOp' \in ReaderOps => activeState' = activeState /\ pending' = pending]_vars
\* all four have run while the record holds an open hand
C17_Witness ==
  /\ lastOp = "renderTick" /\ manualSeen /\ uState = 4
  /\ promptPhase.step = 3
  /\ handDataRef.isPresent /\ handDataRef.gesture = "OPEN" /\ handDataRef.x # 0
  /\ camera.x # 0

\* C18: what a reader takes from handDataRef is what the last completed
\* processResults left: the prompt a poll sets agrees with the classification
\* of that frame, and the camera of a render tick with its position.
C18_ReadsSeeCompletedTick ==
  /\ (lastOp = "pollUI" /\ ~results.present) => promptPhase.step = 1
  /\ (lastOp = "pollUI" /\ results.present) =>
       /\ promptPhase.step \in {2, 3}
       /\ (results.avgDist * 10 > 16 * results.palmSize) =>
            promptPhase.subtitle \in {"DISSOLVING STRUCTURE...", "CLOSE FIST TO IGNITE"}
       /\ (results.avgDist * 10 < 14 * results.palmSize) =>
            promptPhase.subtitle \in {"OPEN HAND TO DISSOLVE", "REFORMING CORE..."}
  /\ (lastOp = "renderTick" /\ results.present) =>
       /\ camera.x * 100 = (0 - (results.rawX - 500) * 2)
                             * (IF activeState = "CHAOS" THEN 50 ELSE 30)
       /\ camera.z = (IF results.palmSize >= 300 THEN 120
                      ELSE IF activeState = "CHAOS" THEN 344 ELSE 304)
\* a poll right after the frame that closed the hand in CHAOS
C18_Witness ==
  /\ lastOp = "pollUI" /\ results.present
  /\ results.avgDist * 10 < 14 * results.palmSize
  /\ promptPhase.subtitle = "REFORMING CORE..."
  /\ lastGestureRef = "CLOSED" /\ camera.z = 344

\* C21 as stated: zoomFactor is in [0, 1], is 0 up to 0.05 and 1 from 0.3
\* on, and is strictly increasing between 0.05 and 0.3.
C21_ZoomStrict ==
  value # <<>> =>
    /\ \A i \in {1, 2} :
         /\ ~Less(<<536870912, 0>>, value[i])
         /\ ~Less(<<26843545, 161061274>>, args[i]) => value[i] = <<0, 0>>
         /\ ~Less(args[i], <<161061273, 161061272>>) => value[i] = <<536870912, 0>>
    /\ (/\ Less(<<26843545, 161061274>>, args[1]) /\ Less(args[1], args[2])
        /\ Less(args[2], <<161061273, 161061272>>)) => Less(value[1], value[2])
\* C21: zoomFactor is in [0, 1], is 0 up to 0.05 and 1 from 0.3 on, never
\* decreases, and between 0.05 and 0.3 increases strictly from one palm size
\* to another that is more than 2^-54 larger.
C21_ZoomMonotone ==
  value # <<>> =>
    /\ \A i \in {1, 2} :
         /\ ~Less(<<536870912, 0>>, value[i])
         /\ ~Less(<<26843545, 161061274>>, args[i]) => value[i] = <<0, 0>>
         /\ ~Less(args[i], <<161061273, 161061272>>) => value[i] = <<536870912, 0>>
    /\ Less(args[1], args[2]) => ~Less(value[2], value[1])
    /\ (/\ Less(<<26843545, 161061274>>, args[1])
        /\ Less(Plus(args[1], 8), args[2])
        /\ Less(args[2], <<161061273, 161061272>>)) => Less(value[1], value[2])
\* 0.2 and 0.2 + 3 * 2^-55 get different factors, 0.6000000000000001 and
\* 0.6000000000000003
C21_Witness ==
  /\ args = << <<107374182, 107374184>>, <<107374182, 107374196>> >>
  /\ value = << <<322122547, 53687104>>, <<322122547, 53687136>> >>

C23_IdleIgnoresHand ==
  value # <<>> =>
    LET pos == args.pos
        orbit == [x |-> (args.phase[1] * 4) \div 100, y |-> 20,
                  z |-> 250 + (args.phase[2] * 2) \div 100]
        rangeX == IF args.stateA = "CHAOS" THEN 50 ELSE 30
    IN /\ value.a = value.b
       /\ \A c \in {"x", "y", "z"} :
            4 * (value.a[c] - pos[c]) = args.delta * (orbit[c] - pos[c])
       /\ 2 * (value.held.x - pos.x) * 100
            = args.delta * (args.handA.x * rangeX - pos.x * 100)
\* two runs with different stale records and states, and a camera that moves
C23_Witness ==
  /\ value # <<>> /\ args.delta = 2
  /\ args.handA.x # args.handB.x /\ args.handA.gesture # args.handB.gesture
  /\ args.stateA # args.stateB
  /\ value.a = value.b /\ value.a # args.pos /\ value.held # value.a

\* C24: while a present hand is OPEN and the state is FORMED, the transition
\* to CHAOS is already requested, so the state follows without further
\* input; likewise for CLOSED, CHAOS and the transition to FORMED.
C24_TransitionUnderway ==
  (isMounted /\ handDataRef.isPresent) =>
    /\ (handDataRef.gesture = "OPEN" /\ activeState = "FORMED") =>
         (pending # <<>> /\ pending[Len(pending)] = "CHAOS")
    /\ (handDataRef.gesture = "CLOSED" /\ activeState = "CHAOS") =>
         (pending # <<>> /\ pending[Len(pending)] = "FORMED")

\* C25: without manual overrides, once the queue of requested transitions
\* is empty the state agrees with the last classified gesture: NONE or
\* CLOSED with FORMED, OPEN with CHAOS, whatever ticks without a hand
\* or failed detections happened in between.
C25_StateFollowsGesture ==
  (~manualSeen /\ pending = <<>>) =>
    /\ lastGestureRef \in {"NONE", "CLOSED"} => activeState = "FORMED"
    /\ lastGestureRef = "OPEN" => activeState = "CHAOS"

C25_Witness ==
  /\ ~manualSeen /\ pending = <<>>
  /\ lastGestureRef = "OPEN" /\ activeState = "CHAOS"
  /\ ~handDataRef.isPresent
  /\ lastOp = "throws"

\* C26: ControlState.gesture and lastGestureRef both start NONE, are equal
\* after every completed tick that saw a hand, and neither returns to NONE
\* once it holds a gesture.
C26_GestureMatchesRef ==
  /\ (handDataRef.gesture = "NONE" /\ lastGestureRef = "NONE")
  /\ [][/\ (lastOp' = "processResults" /\ results'.present)
             => handDataRef'.gesture = lastGestureRef'
        /\ handDataRef.gesture # "NONE" => handDataRef'.gesture # "NONE"
        /\ lastGestureRef # "NONE" => lastGestureRef' # "NONE"]_vars

C26_Witness ==
  /\ lastOp = "processResults" /\ results.present
  /\ results.avgDist * 10 >= 14 * results.palmSize
  /\ results.avgDist * 10 <= 16 * results.palmSize
  /\ handDataRef.gesture = "CLOSED" /\ lastGestureRef = "CLOSED"

====
